---- MODULE Spec2Model ----
(***************************************************************************)
(* Null-safe aggregation protocol of python/ray/data/aggregate.py.         *)
(*                                                                         *)
(* One aggregation descriptor (AggregateFnV2 subclass) is applied to one   *)
(* group: init() gives the first accumulator, every block of the group is  *)
(* turned into a partial accumulator by accumulate_block, accumulators are *)
(* merged pairwise in any order or tree shape, and finalize is called once *)
(* on the last accumulator.                                                *)
(*                                                                         *)
(* Numbers are exact rationals <<numerator, denominator>> (denominator     *)
(* >= 1, lowest terms); Python floats are modelled by the exact value, so  *)
(* "equal within floating-point tolerance" reads as equality. A column     *)
(* value is a rational or the null value <<0, 0>>.                         *)
(***************************************************************************)
EXTENDS Integers, Sequences, FiniteSets

\* ---------------------------------------------------------------- bounds
\* Longest generated dataset (rows of the group, all blocks together).
MaxLen == 2
\* Largest number of blocks a dataset is split into.
MaxBlocks == 2

\* ------------------------------------------------------ exact arithmetic
Abs(x) == IF x < 0 THEN -x ELSE x

RECURSIVE GCD(_, _)
GCD(a, b) == IF b = 0 THEN a ELSE GCD(b, a % b)

\* n / d in lowest terms, d # 0.
RNorm(n, d) ==
    LET sn == IF d < 0 THEN -n ELSE n
        sd == Abs(d)
        g  == GCD(Abs(sn), sd)
    IN  <<sn \div g, sd \div g>>

R(i) == <<i, 1>>
RAdd(a, b) == RNorm(a[1] * b[2] + b[1] * a[2], a[2] * b[2])
RSub(a, b) == RNorm(a[1] * b[2] - b[1] * a[2], a[2] * b[2])
RMul(a, b) == RNorm(a[1] * b[1], a[2] * b[2])
RDiv(a, b) == RNorm(a[1] * b[2], a[2] * b[1])
RLess(a, b) == a[1] * b[2] < b[1] * a[2]
RAbs(a) == <<Abs(a[1]), a[2]>>
RFloor(a) == a[1] \div a[2]
RCeil(a) == -((-a[1]) \div a[2])

\* ------------------------------------------------------------ the values
\* The null column value (None).
NullVal == <<0, 0>>
IsNullVal(x) == x[2] = 0

\* Accumulators and results: a tag, a list payload and a set payload.
Mk(t, v, s) == [t |-> t, v |-> v, s |-> s]
Null == Mk("null", <<>>, {})
NaN == Mk("nan", <<>>, {})
PInf == Mk("pinf", <<>>, {})
NInf == Mk("ninf", <<>>, {})
\* An exception raised by the operation (ZeroDivisionError).
Error == Mk("error", <<>>, {})
EmptyStr == Mk("str", <<>>, {})
Num(r) == Mk("num", <<r>>, {})
PyList(seq) == Mk("list", seq, {})
PySet(S) == Mk("set", <<>>, S)
\* math.sqrt(r), kept exact.
Sqrt(r) == Mk("sqrt", <<r>>, {})

\* A column value as a scalar, and back.
Scalar(x) == IF IsNullVal(x) THEN Null ELSE Num(x)
ValOf(a) == IF a.t = "num" THEN a.v[1] ELSE NullVal

\* ray.data._internal.util.is_null: None or NaN.
is_null(a) == a.t = "null" \/ a.t = "nan"

\* ------------------------------------------------- the block accessor
\* A block is the sequence of the values of the target column, row by row.
NonNull(block) == SelectSeq(block, LAMBDA x : ~IsNullVal(x))
HasNull(block) == \E i \in 1..Len(block) : IsNullVal(block[i])

RECURSIVE SumSeq(_)
SumSeq(seq) == IF seq = <<>> THEN R(0) ELSE RAdd(seq[1], SumSeq(Tail(seq)))

RECURSIVE MinSeq(_)
MinSeq(seq) ==
    IF Len(seq) = 1 THEN seq[1]
    ELSE LET m == MinSeq(Tail(seq)) IN IF RLess(m, seq[1]) THEN m ELSE seq[1]

RECURSIVE MaxSeq(_)
MaxSeq(seq) ==
    IF Len(seq) = 1 THEN seq[1]
    ELSE LET m == MaxSeq(Tail(seq)) IN IF RLess(seq[1], m) THEN m ELSE seq[1]

RECURSIVE SumSqDiff(_, _)
SumSqDiff(seq, mean) ==
    IF seq = <<>> THEN R(0)
    ELSE LET d == RSub(seq[1], mean) IN RAdd(RMul(d, d), SumSqDiff(Tail(seq), mean))

\* The values a null-aware primitive works on; FALSE when the primitive is null.
Defined(block, ignore_nulls) ==
    /\ Len(block) > 0
    /\ IF ignore_nulls THEN NonNull(block) # <<>> ELSE ~HasNull(block)

\* BlockAccessor.num_rows()
num_rows(block) == Len(block)

\* BlockAccessor.count(on, ignore_nulls): null for a block without rows, else
\* the number of non-null values (ignore_nulls) or of all values.
count(block, ignore_nulls) ==
    IF Len(block) = 0 THEN Null
    ELSE Num(R(IF ignore_nulls THEN Len(NonNull(block)) ELSE Len(block)))

\* BlockAccessor.sum(on, ignore_nulls)
sum(block, ignore_nulls) ==
    IF Defined(block, ignore_nulls) THEN Num(SumSeq(NonNull(block))) ELSE Null

\* BlockAccessor.min(on, ignore_nulls)
min(block, ignore_nulls) ==
    IF Defined(block, ignore_nulls) THEN Num(MinSeq(NonNull(block))) ELSE Null

\* BlockAccessor.max(on, ignore_nulls)
max(block, ignore_nulls) ==
    IF Defined(block, ignore_nulls) THEN Num(MaxSeq(NonNull(block))) ELSE Null

\* BlockAccessor.sum_of_squared_diffs_from_mean(on, ignore_nulls, mean)
sum_of_squared_diffs_from_mean(block, ignore_nulls, mean) ==
    IF Defined(block, ignore_nulls)
    THEN Num(SumSqDiff(NonNull(block), mean))
    ELSE Null

\* pyarrow.compute.unique(col).to_pylist(): the distinct values, null included,
\* in the order of their first occurrence.
RECURSIVE unique(_)
unique(block) ==
    IF block = <<>> THEN <<>>
    ELSE LET n == Len(block)
             front == unique(SubSeq(block, 1, n - 1))
         IN  IF \E i \in 1..Len(front) : front[i] = block[n]
             THEN front
             ELSE Append(front, block[n])

\* Python's built-in min, max and abs on numbers and infinities.
py_less(a, b) ==
    \/ a.t = "ninf" /\ b.t # "ninf"
    \/ b.t = "pinf" /\ a.t # "pinf"
    \/ a.t = "num" /\ b.t = "num" /\ RLess(a.v[1], b.v[1])
py_min(a, b) == IF py_less(b, a) THEN b ELSE a
py_max(a, b) == IF py_less(a, b) THEN b ELSE a
py_abs(a) == IF a.t = "num" THEN Num(RAbs(a.v[1])) ELSE PInf
py_add(a, b) == Num(RAdd(a.v[1], b.v[1]))

\* ------------------------------------------------------ the descriptors
Kinds == {"Count", "Sum", "Min", "Max", "Mean", "Std", "AbsMax", "Quantile", "Unique"}

\* The raw zero value of each kind (the zero_factory of each __init__).
zero_factory(self) ==
    CASE self.kind \in {"Count", "Sum", "AbsMax"} -> Num(R(0))
      [] self.kind = "Min" -> PInf
      [] self.kind = "Max" -> NInf
      [] self.kind = "Mean" -> PyList(<<R(0), R(0)>>)
      [] self.kind = "Std" -> PyList(<<R(0), R(0), R(0)>>)
      [] self.kind = "Quantile" -> PyList(<<>>)
      [] self.kind = "Unique" -> PySet({})

\* Variant without the branch for the global count.
Count_aggregate_block_no_global(self, block) == count(block, self.ignore_nulls)

Count_aggregate_block(self, block) ==
    IF ~self.on
    THEN Num(R(num_rows(block)))
    ELSE count(block, self.ignore_nulls)

Count_combine(current_accumulator, new) == py_add(current_accumulator, new)

Sum_aggregate_block(self, block) == sum(block, self.ignore_nulls)

Sum_combine(current_accumulator, new) == py_add(current_accumulator, new)

Min_aggregate_block(self, block) == min(block, self.ignore_nulls)

Min_combine(current_accumulator, new) == py_min(current_accumulator, new)

Max_aggregate_block(self, block) == max(block, self.ignore_nulls)

Max_combine(current_accumulator, new) == py_max(current_accumulator, new)

Mean_aggregate_block(self, block) ==
    LET cnt  == count(block, self.ignore_nulls)
        sum_ == sum(block, self.ignore_nulls)
    IN  IF cnt = Num(R(0)) \/ cnt = Null THEN Null
        ELSE IF is_null(sum_) THEN sum_
        ELSE PyList(<<sum_.v[1], cnt.v[1]>>)

\* Variant adding the sums into both slots.
Mean_combine_slots(current_accumulator, new) ==
    PyList(<<RAdd(current_accumulator.v[1], new.v[1]),
             RAdd(current_accumulator.v[2], new.v[1])>>)

Mean_combine(current_accumulator, new) ==
    PyList(<<RAdd(current_accumulator.v[1], new.v[1]),
             RAdd(current_accumulator.v[2], new.v[2])>>)

Mean_finalize(accumulator) ==
    IF accumulator.v[2] = R(0) THEN NaN
    ELSE Num(RDiv(accumulator.v[1], accumulator.v[2]))

Std_aggregate_block(self, block) ==
    LET cnt  == count(block, self.ignore_nulls)
        sum_ == sum(block, self.ignore_nulls)
    IN  IF cnt = Num(R(0)) \/ cnt = Null THEN Null
        ELSE IF is_null(sum_) THEN sum_
        ELSE LET mean == RDiv(sum_.v[1], cnt.v[1])
                 M2   == sum_of_squared_diffs_from_mean(block, self.ignore_nulls, mean)
             IN  PyList(<<M2.v[1], mean, cnt.v[1]>>)

\* Variant without the between-blocks term of M2.
Std_combine_no_delta(current_accumulator, new) ==
    LET cnt == RAdd(current_accumulator.v[3], new.v[3])
    IN  IF cnt = R(0) THEN Error
        ELSE PyList(<<RAdd(current_accumulator.v[1], new.v[1]),
                      RDiv(RAdd(RMul(current_accumulator.v[2], current_accumulator.v[3]),
                                RMul(new.v[2], new.v[3])), cnt),
                      cnt>>)

Std_combine(current_accumulator, new) ==
    LET M2_a    == current_accumulator.v[1]
        mean_a  == current_accumulator.v[2]
        count_a == current_accumulator.v[3]
        M2_b    == new.v[1]
        mean_b  == new.v[2]
        count_b == new.v[3]
        delta   == RSub(mean_b, mean_a)
        cnt     == RAdd(count_a, count_b)
    IN  IF cnt = R(0) THEN Error
        ELSE LET mean == RDiv(RAdd(RMul(mean_a, count_a), RMul(mean_b, count_b)), cnt)
                 M2   == RAdd(RAdd(M2_a, M2_b),
                              RDiv(RMul(RMul(RMul(delta, delta), count_a), count_b), cnt))
             IN  PyList(<<M2, mean, cnt>>)

\* Variant that forgets ddof.
Std_finalize_no_ddof(self, accumulator) ==
    IF ~RLess(R(0), accumulator.v[3]) THEN NaN
    ELSE Sqrt(RDiv(accumulator.v[1], accumulator.v[3]))

Std_finalize(self, accumulator) ==
    LET M2  == accumulator.v[1]
        cnt == accumulator.v[3]
        n   == RSub(cnt, R(self.ddof))
    IN  IF ~RLess(R(0), n) THEN NaN ELSE Sqrt(RDiv(M2, n))

AbsMax_combine(current_accumulator, new) == py_max(current_accumulator, new)

\* Variant without abs.
AbsMax_aggregate_block_no_abs(self, block) ==
    LET max_ == max(block, self.ignore_nulls)
        min_ == min(block, self.ignore_nulls)
    IN  IF is_null(max_) \/ is_null(min_) THEN Null ELSE py_max(max_, min_)

AbsMax_aggregate_block(self, block) ==
    LET max_ == max(block, self.ignore_nulls)
        min_ == min(block, self.ignore_nulls)
    IN  IF is_null(max_) \/ is_null(min_) THEN Null
        ELSE py_max(py_abs(max_), py_abs(min_))

\* Python's isinstance(x, List) and the test "x is not None and x != ''".
IsList(x) == x.t = "list"
Kept(x) == x.t # "null" /\ x.t # "str"

Quantile_combine_current_first(current_accumulator, new) ==
    IF IsList(current_accumulator) /\ IsList(new)
    THEN PyList(current_accumulator.v \o new.v)
    ELSE IF IsList(current_accumulator) /\ ~IsList(new)
    THEN (IF Kept(new)
          THEN PyList(Append(current_accumulator.v, ValOf(new)))
          ELSE current_accumulator)
    ELSE IF IsList(new) /\ ~IsList(current_accumulator)
    THEN (IF Kept(current_accumulator)
          THEN PyList(<<ValOf(current_accumulator)>> \o new.v)
          ELSE new)
    ELSE PyList((IF Kept(current_accumulator) THEN <<ValOf(current_accumulator)>> ELSE <<>>)
                \o (IF Kept(new) THEN <<ValOf(new)>> ELSE <<>>))

Quantile_combine(current_accumulator, new) ==
    IF IsList(current_accumulator) /\ IsList(new)
    THEN PyList(current_accumulator.v \o new.v)
    ELSE IF IsList(current_accumulator) /\ ~IsList(new)
    THEN (IF Kept(new)
          THEN PyList(Append(current_accumulator.v, ValOf(new)))
          ELSE current_accumulator)
    ELSE IF IsList(new) /\ ~IsList(current_accumulator)
    THEN (IF Kept(current_accumulator)
          THEN PyList(Append(new.v, ValOf(current_accumulator)))
          ELSE new)
    ELSE PyList((IF Kept(current_accumulator) THEN <<ValOf(current_accumulator)>> ELSE <<>>)
                \o (IF Kept(new) THEN <<ValOf(new)>> ELSE <<>>))

Quantile_aggregate_block(self, block) == PyList(block)

\* sorted(accumulator), ascending.
RECURSIVE Insert(_, _)
Insert(x, seq) ==
    IF seq = <<>> THEN <<x>>
    ELSE IF RLess(seq[1], x) THEN <<seq[1]>> \o Insert(x, Tail(seq))
    ELSE <<x>> \o seq

RECURSIVE sorted(_)
sorted(seq) == IF seq = <<>> THEN <<>> ELSE Insert(seq[1], sorted(Tail(seq)))

\* round(x, 5): to the nearest multiple of 10^-5, ties to the even one.
Scale5 == 100000
round5(x) ==
    LET y    == RMul(x, R(Scale5))
        f    == RFloor(y)
        twice == RSub(RMul(y, R(2)), R(2 * f))
    IN  IF RLess(twice, R(1)) THEN RNorm(f, Scale5)
        ELSE IF RLess(R(1), twice) THEN RNorm(f + 1, Scale5)
        ELSE IF f % 2 = 0 THEN RNorm(f, Scale5)
        ELSE RNorm(f + 1, Scale5)

\* Variant with the two interpolation weights swapped.
Quantile_finalize_weights_swapped(self, accumulator) ==
    LET nulls == SelectSeq(accumulator.v, IsNullVal)
        vals  == IF self.ignore_nulls THEN NonNull(accumulator.v) ELSE accumulator.v
    IN  IF ~self.ignore_nulls /\ Len(nulls) > 0 THEN Scalar(nulls[1])
        ELSE IF vals = <<>> THEN Null
        ELSE LET input_values == sorted(vals)
                 k == RMul(R(Len(input_values) - 1), self.q)
                 f == RFloor(k)
                 c == RCeil(k)
             IN  IF f = c THEN Num(input_values[f + 1])
                 ELSE LET d0 == RMul(input_values[f + 1], RSub(k, R(f)))
                          d1 == RMul(input_values[c + 1], RSub(R(c), k))
                      IN  Num(round5(RAdd(d0, d1)))

\* Variant that drops the null entries under either policy.
Quantile_finalize_drops_nulls(self, accumulator) ==
    LET vals == NonNull(accumulator.v)
    IN  IF vals = <<>> THEN Null
        ELSE LET input_values == sorted(vals)
                 k == RMul(R(Len(input_values) - 1), self.q)
                 f == RFloor(k)
                 c == RCeil(k)
             IN  IF f = c THEN Num(input_values[f + 1])
                 ELSE LET d0 == RMul(input_values[f + 1], RSub(R(c), k))
                          d1 == RMul(input_values[c + 1], RSub(k, R(f)))
                      IN  Num(round5(RAdd(d0, d1)))

Quantile_finalize(self, accumulator) ==
    LET nulls == SelectSeq(accumulator.v, IsNullVal)
        vals  == IF self.ignore_nulls THEN NonNull(accumulator.v) ELSE accumulator.v
    IN  IF ~self.ignore_nulls /\ Len(nulls) > 0 THEN Scalar(nulls[1])
        ELSE IF vals = <<>> THEN Null
        ELSE LET input_values == sorted(vals)
                 k == RMul(R(Len(input_values) - 1), self.q)
                 f == RFloor(k)
                 c == RCeil(k)
             IN  IF f = c THEN Num(input_values[f + 1])
                 ELSE LET d0 == RMul(input_values[f + 1], RSub(R(c), k))
                          d1 == RMul(input_values[c + 1], RSub(k, R(f)))
                      IN  Num(round5(RAdd(d0, d1)))

SeqToSet(seq) == {seq[i] : i \in 1..Len(seq)}

Unique_to_set(x) ==
    IF x.t = "set" THEN x.s
    ELSE IF x.t = "list" THEN SeqToSet(x.v)
    ELSE {ValOf(x)}

Unique_combine_drops_new_list(current_accumulator, new) ==
    PySet(Unique_to_set(current_accumulator)
            \cup (IF new.t = "list" THEN {} ELSE Unique_to_set(new)))

Unique_combine(current_accumulator, new) ==
    PySet(Unique_to_set(current_accumulator) \cup Unique_to_set(new))

Unique_aggregate_block(self, block) == PyList(unique(block))

\* Dispatch on the class of the descriptor.
aggregate_block(self, block) ==
    CASE self.kind = "Count" -> Count_aggregate_block(self, block)
      [] self.kind = "Sum" -> Sum_aggregate_block(self, block)
      [] self.kind = "Min" -> Min_aggregate_block(self, block)
      [] self.kind = "Max" -> Max_aggregate_block(self, block)
      [] self.kind = "Mean" -> Mean_aggregate_block(self, block)
      [] self.kind = "Std" -> Std_aggregate_block(self, block)
      [] self.kind = "AbsMax" -> AbsMax_aggregate_block(self, block)
      [] self.kind = "Quantile" -> Quantile_aggregate_block(self, block)
      [] self.kind = "Unique" -> Unique_aggregate_block(self, block)

combine(self, current_accumulator, new) ==
    CASE self.kind = "Count" -> Count_combine(current_accumulator, new)
      [] self.kind = "Sum" -> Sum_combine(current_accumulator, new)
      [] self.kind = "Min" -> Min_combine(current_accumulator, new)
      [] self.kind = "Max" -> Max_combine(current_accumulator, new)
      [] self.kind = "Mean" -> Mean_combine(current_accumulator, new)
      [] self.kind = "Std" -> Std_combine(current_accumulator, new)
      [] self.kind = "AbsMax" -> AbsMax_combine(current_accumulator, new)
      [] self.kind = "Quantile" -> Quantile_combine(current_accumulator, new)
      [] self.kind = "Unique" -> Unique_combine(current_accumulator, new)

\* AggregateFnV2._finalize (the identity) and its overrides.
_finalize(self, accumulator) ==
    CASE self.kind = "Mean" -> Mean_finalize(accumulator)
      [] self.kind = "Std" -> Std_finalize(self, accumulator)
      [] self.kind = "Quantile" -> Quantile_finalize(self, accumulator)
      [] OTHER -> accumulator

\* ------------------------------------------------- the null-safe wrappers
_null_safe_zero_factory_always_zero(self) == zero_factory(self)

_null_safe_zero_factory(self) ==
    IF self.ignore_nulls THEN Null ELSE zero_factory(self)

_null_safe_aggregate(self, block) ==
    LET result_ == aggregate_block(self, block)
    IN  IF is_null(result_) /\ self.ignore_nulls THEN Null ELSE result_

_null_safe_finalize(self, acc) ==
    IF is_null(acc) THEN acc ELSE _finalize(self, acc)

\* Variants of _safe_combine with one branch wrong.
_null_safe_combine_absorbing(self, cur, new) ==
    IF is_null(new) THEN new
    ELSE IF is_null(cur) THEN cur
    ELSE combine(self, cur, new)

_null_safe_combine_cur_overridden(self, cur, new) ==
    IF is_null(cur) THEN new
    ELSE IF is_null(new) THEN (IF self.ignore_nulls THEN cur ELSE new)
    ELSE combine(self, cur, new)

_null_safe_combine_new_dropped(self, cur, new) ==
    IF self.ignore_nulls
    THEN (IF is_null(cur) THEN new
          ELSE IF is_null(new) THEN cur
          ELSE combine(self, cur, new))
    ELSE (IF is_null(cur) THEN cur
          ELSE IF is_null(new) THEN cur
          ELSE combine(self, cur, new))

_null_safe_combine(self, cur, new) ==
    IF self.ignore_nulls
    THEN (IF is_null(cur) THEN new
          ELSE IF is_null(new) THEN cur
          ELSE combine(self, cur, new))
    ELSE (IF is_null(new) THEN new
          ELSE IF is_null(cur) THEN cur
          ELSE combine(self, cur, new))

\* The members AggregateFnV2.__init__ hands to AggregateFn.__init__.
init(self) == _null_safe_zero_factory(self)
merge(self, a, b) == _null_safe_combine(self, a, b)
accumulate_block(self, a, block) == _null_safe_aggregate(self, block)
finalize(self, a) == _null_safe_finalize(self, a)

\* --------------------------------------------------------- the datasets
\* The values of the generated datasets.
Symbols == {R(-2), R(1), NullVal}
Generated == UNION {[1..n -> Symbols] : n \in 0..MaxLen}
Ex(seq) == [i \in 1..Len(seq) |-> IF seq[i] = 0 THEN NullVal ELSE R(seq[i])]
\* The datasets of the documented examples (0 stands for null).
NullsExample == Ex(<<1, 2, 0, 3, 0>>)
StdExample == Ex(<<2, 4, 4, 4, 5, 5, 7, 9>>)
QuantileExample == Ex(<<1, 2, 3, 4>>)
Datasets == Generated \cup {NullsExample, StdExample, QuantileExample}

\* The splits of a dataset into k >= 1 contiguous blocks, empty blocks included.
Cuts(len, k) ==
    {c \in [0..k -> 0..len] :
        /\ c[0] = 0
        /\ c[k] = len
        /\ \A i \in 1..k : c[i - 1] <= c[i]}
SplitAt(d, k, c) == [i \in 1..k |-> SubSeq(d, c[i - 1] + 1, c[i])]
Splits(d) ==
    (IF d = <<>> THEN {<<>>} ELSE {})
    \cup UNION {{SplitAt(d, k, c) : c \in Cuts(Len(d), k)} : k \in 1..MaxBlocks}

RECURSIVE Flatten(_)
Flatten(bs) == IF bs = <<>> THEN <<>> ELSE bs[1] \o Flatten(Tail(bs))

\* The descriptors: Count may have no target column; Std has ddof, Quantile q.
Descriptors ==
    {d \in [kind : Kinds, on : BOOLEAN, ignore_nulls : BOOLEAN,
            ddof : {0, 1}, q : {<<1, 2>>, <<1, 4>>, <<1, 3>>}] :
        /\ d.kind # "Count" => d.on
        /\ d.kind # "Std" => d.ddof = 1
        /\ d.kind # "Quantile" => d.q = <<1, 2>>}

\* ---------------------------------------------------------- the machine
VARIABLES
    agg,      \* the descriptor
    blocks,   \* the blocks of the group, in dataset order
    next,     \* index of the next block to aggregate
    pool,     \* the accumulators not yet merged
    tainted,  \* per accumulator: 0 when no merge on the way to it had a null operand,
              \* else the number of merges from the first such merge on
    result,   \* the finalized value, or what a direct call returned
    pc,       \* "run", "done" or "error"; "call", "returned" or "raised" for a
              \* direct call of a method; "new", "built", "finalized",
              \* "ValueError" or "TypeError" for a construction
    call,     \* the direct call or construction in progress, with its arguments
    heap,     \* the accumulator objects by address, when objects are told apart
    group,    \* per group key: its blocks, the references it holds, its result
    last      \* the last call on references: its operands and the heap before it

vars == <<agg, blocks, next, pool, tainted, result, pc, call, heap, group, last>>
heapvars == <<heap, group, last>>

\* No call on references yet, and no object told apart by its address.
NoLast ==
    [op |-> "none", g |-> 0, cur |-> 0, new |-> 0, ret |-> 0, block |-> <<>>,
     before |-> <<>>]
NoHeap == heap = <<>> /\ group = <<>> /\ last = NoLast

\* Python values of the arguments: None, a string (its pieces), an integer.
PyNone == [ty |-> "NoneType", s |-> <<"None">>]
PyStr(pieces) == [ty |-> "str", s |-> pieces]
PyInt(text) == [ty |-> "int", s |-> <<text>>]
PyBool(b) == [ty |-> "bool", s |-> <<IF b THEN "True" ELSE "False">>]
PyFloat(text) == [ty |-> "float", s |-> <<text>>]
PyFn(text) == [ty |-> "function", s |-> <<text>>]
\* bool(x) and str(x)
truthy(x) == x.ty # "NoneType" /\ ~(x.ty = "str" /\ x.s = <<>>)
str(x) == x.s

\* The shape of a call; NoCall when the engine drives the descriptor.
MkCall(op, a, b, args) == [op |-> op, a |-> a, b |-> b, args |-> args]
NoArgs ==
    [cls |-> "none", on |-> PyNone, name |-> PyNone, ignore_nulls |-> FALSE,
     accumulate_row |-> FALSE, accumulate_block |-> FALSE, finalize |-> FALSE]
NoCall == MkCall("none", Null, Null, NoArgs)

data == Flatten(blocks)

Init ==
    /\ agg \in Descriptors
    /\ blocks \in UNION {Splits(d) : d \in Datasets}
    /\ next = 1
    /\ pool = <<init(agg)>>
    /\ tainted = <<0>>
    /\ result = Null
    /\ pc = "run"
    /\ call = NoCall
    /\ NoHeap

\* A worker turns the next block into a partial accumulator.
AccumulateBlock ==
    /\ pc = "run"
    /\ next <= Len(blocks)
    /\ pool' = Append(pool, accumulate_block(agg, pool[1], blocks[next]))
    /\ tainted' = Append(tainted, 0)
    /\ next' = next + 1
    /\ UNCHANGED <<agg, blocks, result, pc, call>>
    /\ UNCHANGED heapvars

Remove(seq, j) == [i \in 1..(Len(seq) - 1) |-> IF i < j THEN seq[i] ELSE seq[i + 1]]

\* The engine merges accumulator j into accumulator i.
Merge ==
    /\ pc = "run"
    /\ \E i, j \in 1..Len(pool) :
        /\ i # j
        /\ LET m == merge(agg, pool[i], pool[j])
               t == IF tainted[i] > 0 \/ tainted[j] > 0
                    THEN (IF tainted[i] > tainted[j] THEN tainted[i] ELSE tainted[j]) + 1
                    ELSE IF is_null(pool[i]) \/ is_null(pool[j]) THEN 1 ELSE 0
           IN  IF m = Error
               THEN /\ pc' = "error"
                    /\ UNCHANGED <<pool, tainted>>
               ELSE /\ pool' = Remove([pool EXCEPT ![i] = m], j)
                    /\ tainted' = Remove([tainted EXCEPT ![i] = t], j)
                    /\ pc' = pc
    /\ UNCHANGED <<agg, blocks, next, result, call>>
    /\ UNCHANGED heapvars

\* Once every block is in and one accumulator is left, it is finalized.
Finalize ==
    /\ pc = "run"
    /\ next > Len(blocks)
    /\ Len(pool) = 1
    /\ result' = finalize(agg, pool[1])
    /\ pc' = "done"
    /\ UNCHANGED <<agg, blocks, next, pool, tainted, call>>
    /\ UNCHANGED heapvars

Next == AccumulateBlock \/ Merge \/ Finalize

Spec == Init /\ [][Next]_vars

\* ------------------------------------------- direct calls of combine, merge
\* The values of the operands of a direct call.
OpSymbols == {R(1), R(2), R(3), NullVal}
OpBlocks == UNION {[1..n -> OpSymbols] : n \in 0..MaxLen}

\* The accumulators a descriptor produces: its zero and its per-block
\* aggregates (a merge of two of them has the shape of one of them, or is
\* the set of a list for Unique).
Produced(self) ==
    ({zero_factory(self)}
        \cup {aggregate_block(self, b) : b \in OpBlocks}
        \cup (IF self.kind = "Unique"
              THEN {PySet(SeqToSet(b)) : b \in OpBlocks}
              ELSE {}))
    \ {Null}

\* The bare scalars Quantile.combine and Unique._to_set provide for.
Scalars(self) ==
    IF self.kind = "Quantile"
    THEN {Num(x) : x \in OpSymbols \ {NullVal}} \cup {Null, EmptyStr}
    ELSE IF self.kind = "Unique"
    THEN {Num(x) : x \in OpSymbols \ {NullVal}} \cup {Null}
    ELSE {}

\* merge takes any accumulator, null included; combine what merge passes
\* on to it, the bare scalars of Quantile and Unique included.
Operands(self, op) ==
    Produced(self) \cup Scalars(self) \cup (IF op = "merge" THEN {Null} ELSE {})

InitCall ==
    /\ agg \in Descriptors
    /\ \E op \in {"combine", "merge"} :
        \E a, b \in Operands(agg, op) : call = MkCall(op, a, b, NoArgs)
    /\ blocks = <<>>
    /\ next = 1
    /\ pool = <<>>
    /\ tainted = <<>>
    /\ result = Null
    /\ pc = "call"
    /\ NoHeap

Return(value) ==
    /\ result' = value
    /\ pc' = IF value = Error THEN "raised" ELSE "returned"
    /\ UNCHANGED <<agg, blocks, next, pool, tainted, call>>
    /\ UNCHANGED heapvars

\* self.combine(current_accumulator, new)
CallCombine ==
    /\ pc = "call"
    /\ call.op = "combine"
    /\ Return(combine(agg, call.a, call.b))

\* self.merge(a, b)
CallMerge ==
    /\ pc = "call"
    /\ call.op = "merge"
    /\ Return(merge(agg, call.a, call.b))

NextCall == CallCombine \/ CallMerge

SpecCall == InitCall /\ [][NextCall]_vars

\* ------------------------------------------------------------ constructors
\* An object before __init__ has set anything: every attribute is unset.
Unset == [ty |-> "unset", s |-> <<>>]
NewObj(cls) ==
    [kind |-> cls, name |-> Unset, _target_col_name |-> Unset,
     _ignore_nulls |-> Unset, _q |-> Unset, _ddof |-> Unset,
     accumulate_block |-> Unset, finalize |-> Unset]

\* What a constructor leaves: the object as far as it got, and what it raised.
Outcome(obj, exc) == [obj |-> obj, exc |-> exc]

AggregateFn_init_name_first(self, name, row_fn, block_fn, finalize_fn) ==
    IF name.ty # "str" THEN Outcome(self, "TypeError")
    ELSE IF (row_fn = PyNone /\ block_fn = PyNone)
            \/ (row_fn # PyNone /\ block_fn # PyNone)
    THEN Outcome(self, "ValueError")
    ELSE Outcome([self EXCEPT
                    !.name = name,
                    !.accumulate_block =
                        IF block_fn = PyNone
                        THEN PyFn("fold of accumulate_row over the rows")
                        ELSE block_fn,
                    !.finalize = IF finalize_fn = PyNone THEN PyFn("lambda a: a")
                                 ELSE finalize_fn],
                 "none")

AggregateFn_init(self, name, row_fn, block_fn, finalize_fn) ==
    IF (row_fn = PyNone /\ block_fn = PyNone)
        \/ (row_fn # PyNone /\ block_fn # PyNone)
    THEN Outcome(self, "ValueError")
    ELSE IF name.ty # "str" THEN Outcome(self, "TypeError")
    ELSE Outcome([self EXCEPT
                    !.name = name,
                    !.accumulate_block =
                        IF block_fn = PyNone
                        THEN PyFn("fold of accumulate_row over the rows")
                        ELSE block_fn,
                    !.finalize = IF finalize_fn = PyNone THEN PyFn("lambda a: a")
                                 ELSE finalize_fn],
                 "none")

AggregateFnV2_init_any_name(self, name, on, ignore_nulls) ==
    AggregateFn_init(
        [self EXCEPT !._target_col_name = on,
                     !._ignore_nulls = PyBool(ignore_nulls)],
        name, PyNone,
        PyFn("lambda _, block: _safe_aggregate(block)"),
        PyFn("_safe_finalize"))

AggregateFnV2_init(self, name, on, ignore_nulls) ==
    IF ~truthy(name) THEN Outcome(self, "ValueError")
    ELSE AggregateFn_init(
            [self EXCEPT !._target_col_name = on,
                         !._ignore_nulls = PyBool(ignore_nulls)],
            name, PyNone,
            PyFn("lambda _, block: _safe_aggregate(block)"),
            PyFn("_safe_finalize"))

\* alias_name if alias_name else f"<kind>({str(on)})"
NameOr(alias_name, text, on) ==
    IF truthy(alias_name) THEN alias_name
    ELSE PyStr(<<text, "(">> \o str(on) \o <<")">>)

\* Count writes f"count({on or ''})".
Count_init(self, on, ignore_nulls, alias_name) ==
    AggregateFnV2_init(self,
        NameOr(alias_name, "count", IF truthy(on) THEN on ELSE PyStr(<<>>)),
        on, ignore_nulls)

Sum_init(self, on, ignore_nulls, alias_name) ==
    AggregateFnV2_init(self, NameOr(alias_name, "sum", on), on, ignore_nulls)

Min_init(self, on, ignore_nulls, alias_name) ==
    AggregateFnV2_init(self, NameOr(alias_name, "min", on), on, ignore_nulls)

Max_init(self, on, ignore_nulls, alias_name) ==
    AggregateFnV2_init(self, NameOr(alias_name, "max", on), on, ignore_nulls)

Mean_init(self, on, ignore_nulls, alias_name) ==
    AggregateFnV2_init(self, NameOr(alias_name, "mean", on), on, ignore_nulls)

\* Std sets _ddof (default 1) after the base constructor returned.
Std_init(self, on, ignore_nulls, alias_name) ==
    LET o == AggregateFnV2_init(self, NameOr(alias_name, "std", on), on,
                                ignore_nulls)
    IN  IF o.exc = "none" THEN Outcome([o.obj EXCEPT !._ddof = PyInt("1")], "none")
        ELSE o

AbsMax_init_no_column_check(self, on, ignore_nulls, alias_name) ==
    AggregateFnV2_init(self, NameOr(alias_name, "abs_max", on), on, ignore_nulls)

AbsMax_init(self, on, ignore_nulls, alias_name) ==
    IF on = PyNone \/ on.ty # "str" THEN Outcome(self, "ValueError")
    ELSE AggregateFnV2_init(self, NameOr(alias_name, "abs_max", on), on,
                            ignore_nulls)

\* Quantile sets _q (default 0.5) before it calls the base constructor.
Quantile_init(self, on, ignore_nulls, alias_name) ==
    AggregateFnV2_init([self EXCEPT !._q = PyFloat("0.5")],
        NameOr(alias_name, "quantile", on), on, ignore_nulls)

Unique_init(self, on, ignore_nulls, alias_name) ==
    AggregateFnV2_init(self, NameOr(alias_name, "unique", on), on, ignore_nulls)

\* A function argument: given, or left at its default None.
Given(flag, text) == IF flag THEN PyFn(text) ELSE PyNone

\* cls(...): "AggregateFnV2" stands for a user's subclass that hands its
\* name straight to AggregateFnV2.__init__.
new(a) ==
    LET self == NewObj(a.cls)
    IN  CASE a.cls = "AggregateFn" ->
                AggregateFn_init(self, a.name,
                    Given(a.accumulate_row, "accumulate_row"),
                    Given(a.accumulate_block, "accumulate_block"),
                    Given(a.finalize, "finalize"))
          [] a.cls = "AggregateFnV2" ->
                AggregateFnV2_init(self, a.name, a.on, a.ignore_nulls)
          [] a.cls = "Count" -> Count_init(self, a.on, a.ignore_nulls, a.name)
          [] a.cls = "Sum" -> Sum_init(self, a.on, a.ignore_nulls, a.name)
          [] a.cls = "Min" -> Min_init(self, a.on, a.ignore_nulls, a.name)
          [] a.cls = "Max" -> Max_init(self, a.on, a.ignore_nulls, a.name)
          [] a.cls = "Mean" -> Mean_init(self, a.on, a.ignore_nulls, a.name)
          [] a.cls = "Std" -> Std_init(self, a.on, a.ignore_nulls, a.name)
          [] a.cls = "AbsMax" -> AbsMax_init(self, a.on, a.ignore_nulls, a.name)
          [] a.cls = "Quantile" ->
                Quantile_init(self, a.on, a.ignore_nulls, a.name)
          [] a.cls = "Unique" -> Unique_init(self, a.on, a.ignore_nulls, a.name)

\* The arguments tried: a column or a name that is None, "", a string, or
\* not a string at all.
Columns == {PyNone, PyStr(<<>>), PyStr(<<"A">>), PyInt("5")}
Names == {PyNone, PyStr(<<>>), PyStr(<<"x">>), PyInt("5")}

ConstructorCalls ==
    {MkCall("new", Null, Null,
            [cls |-> c, on |-> o, name |-> n, ignore_nulls |-> i,
             accumulate_row |-> FALSE, accumulate_block |-> FALSE,
             finalize |-> FALSE]) :
        c \in Kinds \cup {"AggregateFnV2"}, o \in Columns, n \in Names,
        i \in BOOLEAN}
    \cup
    {MkCall("new", Null, Null,
            [cls |-> "AggregateFn", on |-> PyNone, name |-> n,
             ignore_nulls |-> FALSE, accumulate_row |-> r,
             accumulate_block |-> b, finalize |-> f]) :
        n \in Names, r \in BOOLEAN, b \in BOOLEAN, f \in BOOLEAN}

\* The accumulators handed to the finalize of a built legacy object.
FinalizeInputs == {Null, Num(R(1)), PyList(<<R(1), R(2)>>)}

InitNew ==
    /\ call \in ConstructorCalls
    /\ agg = NewObj(call.args.cls)
    /\ blocks = <<>>
    /\ next = 1
    /\ pool = <<>>
    /\ tainted = <<>>
    /\ result = Null
    /\ pc = "new"
    /\ NoHeap

\* cls(...) runs __init__ to its return or to its raise.
Construct ==
    /\ pc = "new"
    /\ LET o == new(call.args)
       IN  /\ agg' = o.obj
           /\ pc' = IF o.exc = "none" THEN "built" ELSE o.exc
    /\ UNCHANGED <<blocks, next, pool, tainted, result, call>>
    /\ UNCHANGED heapvars

\* self.finalize(a) of a built AggregateFn: the identity when none was
\* given, else whatever the user's function returns.
CallFinalize ==
    /\ pc = "built"
    /\ agg.kind = "AggregateFn"
    /\ \E a \in FinalizeInputs :
        /\ call' = [call EXCEPT !.op = "finalize", !.a = a]
        /\ IF agg.finalize = PyFn("lambda a: a")
           THEN result' = a
           ELSE result' \in FinalizeInputs
    /\ pc' = "finalized"
    /\ UNCHANGED <<agg, blocks, next, pool, tainted>>
    /\ UNCHANGED heapvars

NextNew == Construct \/ CallFinalize

SpecNew == InitNew /\ [][NextNew]_vars

\* ------------------------------------- the legacy row-at-a-time interface
\* The functions a user hands to AggregateFn: the row counter of the
\* documented example (init 0, +1 per row, merge +) and a collector of the
\* rows (init the empty list, append per row, merge concatenation).
UserFns == {"custom_count", "collect"}
LegacyDescriptors == [kind : {"AggregateFn"}, name : UserFns]

user_init(self) ==
    IF self.name = "custom_count" THEN Num(R(0)) ELSE PyList(<<>>)

user_accumulate_row(self, a, r) ==
    IF self.name = "custom_count" THEN py_add(a, Num(R(1)))
    ELSE PyList(Append(a.v, r))

user_merge(self, a, b) ==
    IF self.name = "custom_count" THEN py_add(a, b) ELSE PyList(a.v \o b.v)

RECURSIVE AggregateFn_accumulate_block_drops_accumulator(_, _, _)
AggregateFn_accumulate_block_drops_accumulator(self, a, block) ==
    IF block = <<>> THEN user_init(self)
    ELSE user_accumulate_row(self,
            AggregateFn_accumulate_block_drops_accumulator(
                self, a, SubSeq(block, 1, Len(block) - 1)),
            block[Len(block)])

\* for r in block_acc.iter_rows(...): a = accumulate_row(a, r); return a
RECURSIVE AggregateFn_accumulate_block(_, _, _)
AggregateFn_accumulate_block(self, a, block) ==
    IF block = <<>> THEN a
    ELSE AggregateFn_accumulate_block(
            self, user_accumulate_row(self, a, block[1]), Tail(block))

\* finalize = lambda a: a
AggregateFn_finalize(self, a) == a

\* A group under the legacy interface: pool holds one accumulator per
\* worker, each started from init and fed blocks one after another.
InitLegacy ==
    /\ agg \in LegacyDescriptors
    /\ blocks \in UNION {Splits(d) : d \in Datasets}
    /\ next = 1
    /\ pool = <<user_init(agg)>>
    /\ tainted = <<>>
    /\ result = Null
    /\ pc = "run"
    /\ call = NoCall
    /\ NoHeap

\* One more worker takes part, with an accumulator of init.
StartWorker ==
    /\ pc = "run"
    /\ next <= Len(blocks)
    /\ Len(pool) < MaxBlocks
    /\ pool' = Append(pool, user_init(agg))
    /\ UNCHANGED <<agg, blocks, next, tainted, result, pc, call>>
    /\ UNCHANGED heapvars

\* A worker accumulates the next block into its accumulator.
AccumulateLegacy ==
    /\ pc = "run"
    /\ next <= Len(blocks)
    /\ \E w \in 1..Len(pool) :
        pool' = [pool EXCEPT
                    ![w] = AggregateFn_accumulate_block(agg, pool[w], blocks[next])]
    /\ next' = next + 1
    /\ UNCHANGED <<agg, blocks, tainted, result, pc, call>>
    /\ UNCHANGED heapvars

\* The results of two workers are merged.
MergeLegacy ==
    /\ pc = "run"
    /\ \E i, j \in 1..Len(pool) :
        /\ i # j
        /\ pool' = Remove([pool EXCEPT ![i] = user_merge(agg, pool[i], pool[j])], j)
    /\ UNCHANGED <<agg, blocks, next, tainted, result, pc, call>>
    /\ UNCHANGED heapvars

FinalizeLegacy ==
    /\ pc = "run"
    /\ next > Len(blocks)
    /\ Len(pool) = 1
    /\ result' = AggregateFn_finalize(agg, pool[1])
    /\ pc' = "done"
    /\ UNCHANGED <<agg, blocks, next, pool, tainted, call>>
    /\ UNCHANGED heapvars

NextLegacy == StartWorker \/ AccumulateLegacy \/ MergeLegacy \/ FinalizeLegacy

SpecLegacy == InitLegacy /\ [][NextLegacy]_vars

\* --------------------------------------------- accumulators as objects
\* An accumulator is an object at an address of the heap; a call takes and
\* returns addresses. What a call leaves: the heap, and the address it
\* returns (0 when it raised).
Out(h, ret) == [heap |-> h, ret |-> ret]
Alloc(h, value) == Out(Append(h, value), Len(h) + 1)

init_ref_shared_zero(self, h) ==
    IF h # <<>> THEN Out(h, 1) ELSE Alloc(h, _null_safe_zero_factory(self))

\* init: _safe_zero_factory(_) calls zero_factory(), which builds its value
\* anew (list([0, 0]), list(), set(), ...), or returns None.
init_ref(self, h) == Alloc(h, _null_safe_zero_factory(self))

accumulate_block_ref_folds_accumulator(self, h, acc, block) ==
    Alloc(h, _null_safe_combine(self, h[acc], _null_safe_aggregate(self, block)))

\* accumulate_block=lambda _, block: _safe_aggregate(block): every
\* aggregate_block builds its result from the block.
accumulate_block_ref(self, h, acc, block) ==
    Alloc(h, _null_safe_aggregate(self, block))

combine_ref_mean_in_place(self, h, cur_ref, new_ref) ==
    LET value == combine(self, h[cur_ref], h[new_ref])
    IN  IF value = Error THEN Out(h, 0)
        ELSE IF self.kind \in {"Quantile", "Mean"}
        THEN (IF IsList(h[cur_ref]) THEN Out([h EXCEPT ![cur_ref] = value], cur_ref)
              ELSE IF IsList(h[new_ref]) THEN Out([h EXCEPT ![new_ref] = value], new_ref)
              ELSE Alloc(h, value))
        ELSE IF self.kind \in {"Min", "Max", "AbsMax"}
        THEN Out(h, IF value = h[cur_ref] THEN cur_ref ELSE new_ref)
        ELSE Alloc(h, value)

\* combine on objects: Quantile extends or appends to its list operand and
\* returns it; min and max return one of their operands; every other
\* combine builds a new value (a + b, a list display, a set union).
combine_ref(self, h, cur_ref, new_ref) ==
    LET value == combine(self, h[cur_ref], h[new_ref])
    IN  IF value = Error THEN Out(h, 0)
        ELSE IF self.kind = "Quantile"
        THEN (IF IsList(h[cur_ref]) THEN Out([h EXCEPT ![cur_ref] = value], cur_ref)
              ELSE IF IsList(h[new_ref]) THEN Out([h EXCEPT ![new_ref] = value], new_ref)
              ELSE Alloc(h, value))
        ELSE IF self.kind \in {"Min", "Max", "AbsMax"}
        THEN Out(h, IF value = h[cur_ref] THEN cur_ref ELSE new_ref)
        ELSE Alloc(h, value)

\* _safe_combine on objects: a short-circuit returns the operand itself.
_null_safe_combine_ref(self, h, cur_ref, new_ref) ==
    IF self.ignore_nulls
    THEN (IF is_null(h[cur_ref]) THEN Out(h, new_ref)
          ELSE IF is_null(h[new_ref]) THEN Out(h, cur_ref)
          ELSE combine_ref(self, h, cur_ref, new_ref))
    ELSE (IF is_null(h[new_ref]) THEN Out(h, new_ref)
          ELSE IF is_null(h[cur_ref]) THEN Out(h, cur_ref)
          ELSE combine_ref(self, h, cur_ref, new_ref))

\* One descriptor serves two groups. The blocks each group may receive.
Keys == {1, 2}
GroupBlocks(g) ==
    IF g = 1
    THEN {<<>>, <<<<R(1)>>, <<R(-2), NullVal>>>>, <<<<>>, <<R(1), R(-2)>>>>}
    ELSE {<<>>, <<<<R(3)>>>>, <<<<R(3), NullVal>>>>}

HeapDescriptors == {d \in Descriptors : d.ddof = 1 /\ d.q = <<1, 2>>}

NewGroup(bs) ==
    [blocks |-> bs, next |-> 1, pool |-> <<>>, result |-> Null, pc |-> "new"]

Last(op, g, cur_ref, new_ref, ret, block) ==
    [op |-> op, g |-> g, cur |-> cur_ref, new |-> new_ref, ret |-> ret,
     block |-> block, before |-> heap]

InitHeap ==
    /\ agg \in HeapDescriptors
    /\ \E b1 \in GroupBlocks(1), b2 \in GroupBlocks(2) :
        group = <<NewGroup(b1), NewGroup(b2)>>
    /\ heap = <<>>
    /\ last = NoLast
    /\ blocks = <<>>
    /\ next = 1
    /\ pool = <<>>
    /\ tainted = <<>>
    /\ result = Null
    /\ pc = "groups"
    /\ call = NoCall

Untouched == UNCHANGED <<agg, blocks, next, pool, tainted, result, pc, call>>

\* The engine asks for the accumulator of a group key.
InitGroup(g) ==
    /\ group[g].pc = "new"
    /\ LET o == init_ref(agg, heap)
       IN  /\ heap' = o.heap
           /\ group' = [group EXCEPT ![g].pool = <<o.ret>>, ![g].pc = "run"]
           /\ last' = Last("init", g, 0, 0, o.ret, <<>>)
    /\ Untouched

\* A worker turns the next block of the group into a partial accumulator.
AccumulateGroup(g) ==
    /\ group[g].pc = "run"
    /\ group[g].next <= Len(group[g].blocks)
    /\ LET acc == group[g].pool[1]
           block == group[g].blocks[group[g].next]
           o == accumulate_block_ref(agg, heap, acc, block)
       IN  /\ heap' = o.heap
           /\ group' = [group EXCEPT ![g].pool = Append(@, o.ret),
                                     ![g].next = @ + 1]
           /\ last' = Last("accumulate_block", g, acc, 0, o.ret, block)
    /\ Untouched

\* The engine merges two accumulators of the group.
MergeGroup(g) ==
    /\ group[g].pc = "run"
    /\ \E i, j \in 1..Len(group[g].pool) :
        /\ i # j
        /\ LET cur_ref == group[g].pool[i]
               new_ref == group[g].pool[j]
               o == _null_safe_combine_ref(agg, heap, cur_ref, new_ref)
           IN  /\ heap' = o.heap
               /\ last' = Last("merge", g, cur_ref, new_ref, o.ret, <<>>)
               /\ IF o.ret = 0
                  THEN group' = [group EXCEPT ![g].pc = "error"]
                  ELSE group' = [group EXCEPT
                                    ![g].pool = Remove([@ EXCEPT ![i] = o.ret], j)]
    /\ Untouched

\* The one accumulator left of the group is finalized.
FinalizeGroup(g) ==
    /\ group[g].pc = "run"
    /\ group[g].next > Len(group[g].blocks)
    /\ Len(group[g].pool) = 1
    /\ group' = [group EXCEPT
                    ![g].result = finalize(agg, heap[group[g].pool[1]]),
                    ![g].pc = "done"]
    /\ last' = Last("finalize", g, group[g].pool[1], 0, 0, <<>>)
    /\ UNCHANGED heap
    /\ Untouched

NextHeap ==
    \E g \in Keys :
        InitGroup(g) \/ AccumulateGroup(g) \/ MergeGroup(g) \/ FinalizeGroup(g)

SpecHeap == InitHeap /\ [][NextHeap]_vars

\* ------------------------------------------------------------ properties
\* The flat values of the group, and what is expected of them.
Values == NonNull(data)
Total == SumSeq(Values)
Merged == pc # "error" /\ next > Len(blocks) /\ Len(pool) = 1
Pool == {pool[i] : i \in 1..Len(pool)}

\* The result of the group when all its rows come as one block.
OneBlock(self, d) ==
    finalize(self, merge(self, init(self), accumulate_block(self, init(self), d)))

\* merge, with an exception raised by an operand's own merge passed on.
MergeE(self, a, b) == IF a = Error \/ b = Error THEN Error ELSE merge(self, a, b)

\* C1: for Sum, Count, Min, Max, Mean, Std and Unique, under either null
\* policy, the finalized result of every split of a dataset into one or more
\* blocks (blocks with zero rows allowed), merged in any order or tree, is the
\* result of the dataset taken as one block.
C1_PartitioningInvariance ==
    (/\ pc = "done"
     /\ agg.kind \in {"Sum", "Count", "Min", "Max", "Mean", "Std", "Unique"}
     /\ Len(blocks) >= 1)
    => result = OneBlock(agg, data)

\* C2: for every kind and either null policy, merge is commutative and
\* associative on the accumulators produced under the descriptor (by init,
\* accumulate_block or earlier merges, null included).
C2_MergeCommutativeAssociative ==
    \A a, b, c \in Pool :
        /\ MergeE(agg, a, b) = MergeE(agg, b, a)
        /\ MergeE(agg, MergeE(agg, a, b), c) = MergeE(agg, a, MergeE(agg, b, c))

\* C3: under ignore_nulls=True the accumulator of init is a two-sided
\* identity of merge, for every accumulator of the descriptor.
C3_InitIsIdentity ==
    agg.ignore_nulls =>
        \A a \in Pool :
            /\ merge(agg, init(agg), a) = a
            /\ merge(agg, a, init(agg)) = a

\* A non-null accumulator that went through a merge with the null of init.
C3_Witness ==
    /\ agg.ignore_nulls
    /\ Merged
    /\ tainted[1] > 0
    /\ ~is_null(pool[1])
    /\ Len(blocks) = 2

\* C4: under ignore_nulls=False, an accumulator made by a merge that had a
\* null operand, or by any later merge of such a result with other
\* accumulators, is null, and so is the result finalized from it.
C4_PoisoningIsPermanent ==
    ~agg.ignore_nulls =>
        /\ \A i \in 1..Len(pool) : tainted[i] > 0 => pool[i] = Null
        /\ (pc = "done" /\ tainted[1] > 0) => result = Null

\* A poisoned result was an operand of a later merge with a block of values.
C4_Witness ==
    /\ ~agg.ignore_nulls
    /\ pc = "done"
    /\ tainted[1] >= 2
    /\ \E i \in 1..Len(blocks) : blocks[i] # <<>> /\ ~HasNull(blocks[i])

\* C5: under ignore_nulls=False, a null in the column of any block makes the
\* finalized Sum, Mean and Std null, for every split and merge order.
C5_NullInColumnGivesNull ==
    (/\ pc = "done"
     /\ ~agg.ignore_nulls
     /\ agg.kind \in {"Sum", "Mean", "Std"}
     /\ HasNull(data))
    => result = Null

\* The blocks [[1, 2, null], [3, null]], finalized.
NullsExampleBlocks == <<Ex(<<1, 2, 0>>), Ex(<<3, 0>>)>>
C5_Witness ==
    /\ pc = "done"
    /\ ~agg.ignore_nulls
    /\ agg.kind = "Std"
    /\ blocks = NullsExampleBlocks

\* The ordinary aggregate of a non-empty sequence of numbers.
Ordinary(self, d) ==
    LET n == R(Len(d))
    IN  CASE self.kind = "Count" -> Num(n)
          [] self.kind = "Sum" -> Num(SumSeq(d))
          [] self.kind = "Min" -> Num(MinSeq(d))
          [] self.kind = "Max" -> Num(MaxSeq(d))
          [] self.kind = "Mean" -> Num(RDiv(SumSeq(d), n))
          [] self.kind = "Std" ->
                IF Len(d) - self.ddof <= 0 THEN NaN
                ELSE Sqrt(RDiv(SumSqDiff(d, RDiv(SumSeq(d), n)), R(Len(d) - self.ddof)))
          [] self.kind = "AbsMax" ->
                Num(MaxSeq([i \in 1..Len(d) |-> RAbs(d[i])]))

\* C6: under ignore_nulls=False, when no block holds a null (and there is a
\* value), the finalized result is the ordinary aggregate of all the values
\* and is not null, for every split into blocks, blocks with zero rows included.
C6_NoNullIsOrdinary ==
    (/\ pc = "done"
     /\ ~agg.ignore_nulls
     /\ agg.kind \in {"Count", "Sum", "Min", "Max", "Mean", "Std", "AbsMax"}
     /\ ~HasNull(data)
     /\ data # <<>>)
    => (result = Ordinary(agg, data) /\ result # Null)

\* C7: under ignore_nulls=True, for every kind (on a target column), the
\* finalized result is null if and only if the column has no non-null value
\* in any block.
C7_NullIffNoValue ==
    (pc = "done" /\ agg.ignore_nulls /\ agg.on) => (is_null(result) <=> Values = <<>>)

\* C8 as stated: Count with no target column returns the number of rows for
\* every split of the rows into blocks, under either null policy.
C8_CountRows ==
    (pc = "done" /\ agg.kind = "Count" /\ ~agg.on) => result = Num(R(Len(data)))

\* C8 amended: Count with no target column returns the number of rows for
\* every split into one or more blocks; with no block at all it returns 0
\* under ignore_nulls=False and null under ignore_nulls=True.
C8_CountRowsOfBlocks ==
    (pc = "done" /\ agg.kind = "Count" /\ ~agg.on) =>
        result = IF Len(blocks) = 0 /\ agg.ignore_nulls THEN Null
                 ELSE Num(R(Len(data)))

\* Rows counted over two blocks, one of them without rows.
C8_Witness ==
    /\ pc = "done"
    /\ agg.kind = "Count"
    /\ ~agg.on
    /\ agg.ignore_nulls
    /\ Len(blocks) = 2
    /\ blocks[1] = <<>>
    /\ Len(blocks[2]) = 2
    /\ result = Num(R(2))

\* C9: under ignore_nulls=True with a non-null value, Sum finalizes to the
\* total of the non-null values, the merged Mean accumulator is [total,
\* number of non-null values] and finalizes to total / number; the blocks
\* [[1, 2, null], [3, null]] give Sum = 6 and Mean = 2.
C9_SumAndMeanOfNonNull ==
    (agg.ignore_nulls /\ Values # <<>> /\ Merged) =>
        /\ (agg.kind = "Sum" /\ pc = "done") => result = Num(Total)
        /\ agg.kind = "Mean" => pool[1] = PyList(<<Total, R(Len(Values))>>)
        /\ (agg.kind = "Mean" /\ pc = "done") => result = Num(RDiv(Total, R(Len(Values))))
        /\ (agg.kind = "Sum" /\ pc = "done" /\ blocks = NullsExampleBlocks)
                => result = Num(R(6))
        /\ (agg.kind = "Mean" /\ pc = "done" /\ blocks = NullsExampleBlocks)
                => result = Num(R(2))

C9_Witness ==
    /\ agg.ignore_nulls
    /\ agg.kind = "Mean"
    /\ pc = "done"
    /\ blocks = NullsExampleBlocks
    /\ pool = <<PyList(<<R(6), R(3)>>)>>
    /\ result = Num(R(2))

\* Every block contributes a triple: it holds a value, and no null unless
\* nulls are ignored.
EveryBlockCounts ==
    \A i \in 1..Len(blocks) : Defined(blocks[i], agg.ignore_nulls)

\* C10: the merge of the Std triples of disjoint non-empty blocks, in any
\* order or tree, is [M2, mean, count] of the whole data; [2,4,4,4,5,5,7,9]
\* split any way merges to [32, 5, 8], which ddof=1 finalizes to sqrt(32/7).
C10_ParallelVariance ==
    (agg.kind = "Std" /\ Len(blocks) >= 1 /\ EveryBlockCounts /\ Merged) =>
        LET n    == R(Len(Values))
            mean == RDiv(Total, n)
        IN  /\ pool[1] = PyList(<<SumSqDiff(Values, mean), mean, n>>)
            /\ data = StdExample => pool[1] = PyList(<<R(32), R(5), R(8)>>)
            /\ (data = StdExample /\ pc = "done" /\ agg.ddof = 1)
                    => result = Sqrt(<<32, 7>>)

C10_Witness ==
    /\ agg.kind = "Std"
    /\ agg.ddof = 1
    /\ data = StdExample
    /\ Len(blocks) = 2
    /\ Len(blocks[1]) = 3
    /\ pc = "done"
    /\ pool = <<PyList(<<R(32), R(5), R(8)>>)>>
    /\ result = Sqrt(<<32, 7>>)

\* C11: Std finalize of a non-null accumulator [M2, mean, count] is NaN
\* exactly when count - ddof <= 0 and else the square root of
\* M2 / (count - ddof), the divisor being positive.
C11_StdFinalize ==
    (pc = "done" /\ agg.kind = "Std" /\ ~is_null(pool[1])) =>
        LET M2 == pool[1].v[1]
            n  == pool[1].v[3][1] - agg.ddof
        IN  /\ result = NaN <=> n <= 0
            /\ n > 0 => result = Sqrt(RNorm(M2[1], M2[2] * n))

\* One value and ddof = 1: count - ddof = 0.
C11_Witness ==
    /\ pc = "done"
    /\ agg.kind = "Std"
    /\ agg.ddof = 1
    /\ Len(blocks) = 2
    /\ pool = <<PyList(<<R(0), R(-2), R(1)>>)>>
    /\ result = NaN

\* The quantile of the sorted non-null values, not rounded.
Interpolated(self, d) ==
    LET s == sorted(d)
        k == RMul(R(Len(s) - 1), self.q)
        f == RFloor(k)
        c == RCeil(k)
    IN  IF f = c THEN s[f + 1]
        ELSE RAdd(RMul(s[f + 1], RSub(R(c), k)), RMul(s[c + 1], RSub(k, R(f))))

\* Quantile finalizes to a number: there is a value, and no null unless
\* nulls are ignored.
QuantileCase ==
    /\ pc = "done"
    /\ agg.kind = "Quantile"
    /\ Values # <<>>
    /\ agg.ignore_nulls \/ ~HasNull(data)

\* C12 as stated: Quantile finalize returns sorted[k] when f = c and else
\* sorted[f]*(c-k) + sorted[c]*(k-f), whatever the split and the merge order.
C12_QuantileInterpolation ==
    QuantileCase => result = Num(Interpolated(agg, Values))

\* C12 amended: the interpolated value is rounded to 5 decimal places;
\* [1, 2, 3, 4] gives 2.5 for q = 0.5 and 1.75 for q = 0.25.
C12_QuantileInterpolationRounded ==
    QuantileCase =>
        LET k == RMul(R(Len(Values) - 1), agg.q)
        IN  /\ RFloor(k) = RCeil(k) => result = Num(sorted(Values)[RFloor(k) + 1])
            /\ RFloor(k) # RCeil(k) => result = Num(round5(Interpolated(agg, Values)))
            /\ (data = QuantileExample /\ agg.q = <<1, 2>>) => result = Num(<<5, 2>>)
            /\ (data = QuantileExample /\ agg.q = <<1, 4>>) => result = Num(<<7, 4>>)

C12_Witness ==
    /\ pc = "done"
    /\ agg.kind = "Quantile"
    /\ agg.q = <<1, 4>>
    /\ blocks = <<Ex(<<1, 2, 3>>), Ex(<<4>>)>>
    /\ result = Num(<<7, 4>>)

\* C13: Quantile finalize under ignore_nulls=True drops the null entries and
\* is null exactly when no non-null entry remains; under ignore_nulls=False
\* it is null whenever an entry of any block is null, and a number only
\* when no entry is null.
C13_QuantileNulls ==
    (pc = "done" /\ agg.kind = "Quantile") =>
        /\ (Len(blocks) >= 1 /\ pool[1].t = "list") =>
                \A x \in Symbols \cup SeqToSet(data) :
                    Len(SelectSeq(pool[1].v, LAMBDA y : y = x))
                        = Len(SelectSeq(data, LAMBDA y : y = x))
        /\ agg.ignore_nulls => (is_null(result) <=> Values = <<>>)
        /\ (agg.ignore_nulls /\ Values # <<>>) =>
                result = Num(round5(Interpolated(agg, Values)))
        /\ (~agg.ignore_nulls /\ HasNull(data)) => result = Null
        /\ (~agg.ignore_nulls /\ result.t = "num") => ~HasNull(data)

\* A null in the second block only, nulls not ignored.
C13_Witness ==
    /\ pc = "done"
    /\ agg.kind = "Quantile"
    /\ ~agg.ignore_nulls
    /\ Len(blocks) = 2
    /\ ~HasNull(blocks[1])
    /\ blocks[1] # <<>>
    /\ HasNull(blocks[2])
    /\ result = Null

\* The largest absolute value of a non-empty sequence of numbers.
MaxAbs(d) == MaxSeq([i \in 1..Len(d) |-> RAbs(d[i])])

\* C20: an AbsMax block whose column max or min is null contributes null,
\* any other block max(abs(max), abs(min)), and merge is max; under
\* ignore_nulls=True the result over blocks that hold a non-null value is
\* the largest absolute value of all non-null values, for every split.
C20_AbsMax ==
    agg.kind = "AbsMax" =>
        /\ \A i \in 1..Len(blocks) :
                accumulate_block(agg, pool[1], blocks[i])
                    = IF Defined(blocks[i], agg.ignore_nulls)
                      THEN Num(MaxAbs(NonNull(blocks[i])))
                      ELSE Null
        /\ \A a, b \in Pool :
                (~is_null(a) /\ ~is_null(b)) =>
                    /\ merge(agg, a, b) \in {a, b}
                    /\ ~py_less(merge(agg, a, b), a)
                    /\ ~py_less(merge(agg, a, b), b)
        /\ (agg.ignore_nulls /\ Values # <<>> /\ pc = "done") =>
                result = Num(MaxAbs(Values))

\* The largest absolute value comes from a negative value of another block.
C20_Witness ==
    /\ agg.kind = "AbsMax"
    /\ agg.ignore_nulls
    /\ pc = "done"
    /\ blocks = <<<<R(1)>>, <<R(-2)>>>>
    /\ result = Num(R(2))

\* The values an accumulator of Unique stands for.
Members(x) ==
    CASE x.t = "set" -> x.s
      [] x.t = "list" -> {x.v[i] : i \in DOMAIN x.v}
      [] OTHER -> {x.v[1]}

Returned == pc \in {"returned", "raised"}

\* C14: the Unique merge (and raw combine) of two non-null accumulators, each
\* a set, a list or a bare scalar, returns the set of all their values:
\* {1,2} and {2,3} give {1,2,3}, and an accumulator merged with an identical
\* one gives the set of its own values.
C14_UniqueUnion ==
    (Returned /\ agg.kind = "Unique" /\ call.a.t # "null" /\ call.b.t # "null") =>
        /\ result = PySet(Members(call.a) \cup Members(call.b))
        /\ (call.a = PySet({R(1), R(2)}) /\ call.b = PySet({R(2), R(3)})) =>
                result = PySet({R(1), R(2), R(3)})
        /\ call.a = call.b => result = PySet(Members(call.a))
        /\ (call.a = call.b /\ call.a.t = "set") => result = call.a

\* The example of the documentation, merged.
C14_Witness ==
    /\ pc = "returned"
    /\ agg.kind = "Unique"
    /\ call.op = "merge"
    /\ call.a = PySet({R(1), R(2)})
    /\ call.b = PySet({R(2), R(3)})
    /\ result = PySet({R(1), R(2), R(3)})

\* C17: for every kind the raw zero value is an identity of the raw combine:
\* combine(zero, a) = a and combine(a, zero) = a for every accumulator a the
\* kind produces, a = zero included, and combine raises no error.
C17_ZeroIsIdentity ==
    (Returned /\ call.op = "combine"
        /\ call.a \in Produced(agg) /\ call.b \in Produced(agg)) =>
        /\ call.a = zero_factory(agg) => (pc = "returned" /\ result = call.b)
        /\ call.b = zero_factory(agg) => (pc = "returned" /\ result = call.a)

\* The entries an operand of Quantile.combine brings: those of a list, a
\* scalar that is neither null nor the empty string, nothing otherwise.
Entries(x) ==
    CASE x.t = "list" -> x.v
      [] x.t \in {"null", "str"} -> <<>>
      [] OTHER -> <<x.v[1]>>

\* C19: Quantile raw combine always returns a list: two lists give their
\* concatenation, current first; a list and a scalar give the list with the
\* scalar appended at its end (whichever operand the list is) unless the
\* scalar is null or the empty string; two scalars give the list of the
\* kept ones, current before new.
C19_QuantileCombine ==
    (Returned /\ agg.kind = "Quantile" /\ call.op = "combine") =>
        LET a == call.a
            b == call.b
        IN  /\ pc = "returned"
            /\ result.t = "list"
            /\ result.v = IF a.t # "list" /\ b.t = "list"
                          THEN Entries(b) \o Entries(a)
                          ELSE Entries(a) \o Entries(b)

\* A scalar current accumulator lands behind the entries of the new list.
C19_Witness ==
    /\ pc = "returned"
    /\ agg.kind = "Quantile"
    /\ call.op = "combine"
    /\ call.a = Num(R(1))
    /\ call.b = PyList(<<R(2), R(3)>>)
    /\ result = PyList(<<R(2), R(3), R(1)>>)

\* The constructor of the call has returned or raised.
Constructed == pc \in {"built", "finalized", "ValueError", "TypeError"}
Args == call.args
IsStr(x) == x.ty = "str"
OptionalStr(x) == x.ty \in {"NoneType", "str"}

\* C15: AbsMax(on=...) with on None or not a string raises the ValueError
\* with no attribute of the object set; with a string column (and an alias
\* that is a string or None) the object is built on that column.
C15_AbsMaxNeedsColumn ==
    (Constructed /\ Args.cls = "AbsMax") =>
        /\ ~IsStr(Args.on) => (pc = "ValueError" /\ agg = NewObj("AbsMax"))
        /\ (IsStr(Args.on) /\ OptionalStr(Args.name)) =>
                /\ pc = "built"
                /\ agg._target_col_name = Args.on
                /\ agg.name # Unset

\* AbsMax() with an alias and no column.
C15_Witness ==
    /\ pc = "ValueError"
    /\ Args.cls = "AbsMax"
    /\ Args.on = PyNone
    /\ Args.name = PyStr(<<"x">>)
    /\ agg = NewObj("AbsMax")

\* C16 as stated: a built-in kind constructed with an empty alias raises
\* the ValueError.
C16_EmptyAliasFails ==
    (Constructed /\ Args.cls \in Kinds /\ Args.name = PyStr(<<>>)) =>
        pc = "ValueError"

\* C16: AggregateFnV2.__init__ raises the ValueError, with nothing set, when
\* the name handed to it is empty or None; a built-in kind never hands it
\* an empty name: with an empty or missing alias it is built under the
\* default name "<kind>(<on>)" (AbsMax only with a string column).
C16_EmptyNameFails ==
    Constructed =>
        /\ (Args.cls = "AggregateFnV2" /\ Args.name \in {PyNone, PyStr(<<>>)}) =>
                (pc = "ValueError" /\ agg = NewObj("AggregateFnV2"))
        /\ (Args.cls \in Kinds /\ Args.name \in {PyNone, PyStr(<<>>)}
                /\ (Args.cls = "AbsMax" => IsStr(Args.on))) =>
                /\ pc = "built"
                /\ IsStr(agg.name)
                /\ Len(agg.name.s) >= 3
                /\ agg.name.s[2] = "("
                /\ agg.name.s[Len(agg.name.s)] = ")"
        /\ (Args.cls = "Count" /\ Args.name = PyStr(<<>>)
                /\ Args.on = PyStr(<<"A">>)) =>
                agg.name = PyStr(<<"count", "(", "A", ")">>)

\* A user's subclass hands an empty name to AggregateFnV2.__init__.
C16_Witness ==
    /\ pc = "ValueError"
    /\ Args.cls = "AggregateFnV2"
    /\ Args.name = PyStr(<<>>)
    /\ Args.on = PyStr(<<"A">>)
    /\ agg = NewObj("AggregateFnV2")

ExactlyOne == Args.accumulate_row # Args.accumulate_block

C21_LegacyFold ==
    agg.kind = "AggregateFn" =>
        /\ \A a \in Pool : \A i \in 1..Len(blocks) :
                LET out == AggregateFn_accumulate_block(agg, a, blocks[i])
                IN  /\ blocks[i] = <<>> => out = a
                    /\ agg.name = "custom_count" =>
                            out = Num(R(a.v[1][1] + Len(blocks[i])))
                    /\ agg.name = "collect" => out = PyList(a.v \o blocks[i])
        /\ (pc = "done" /\ agg.name = "custom_count") =>
                result = Num(R(Len(data)))
        /\ (pc = "done" /\ agg.name = "collect") =>
                /\ Len(result.v) = Len(data)
                /\ Len(pool) = 1

\* Two rows counted over a block with zero rows and a block with two.
C21_Witness ==
    /\ agg = [kind |-> "AggregateFn", name |-> "custom_count"]
    /\ pc = "done"
    /\ blocks = <<<<>>, <<R(1), R(-2)>>>>
    /\ result = Num(R(2))

\* C25: a group that receives no block finalizes the accumulator of init
\* without error: to null under ignore_nulls=True; under ignore_nulls=False
\* to 0 for Count, Sum and AbsMax, +inf for Min, -inf for Max, NaN for Mean
\* and Std, null for Quantile and the empty set for Unique.
C25_NoBlock ==
    blocks = <<>> =>
        /\ pc # "error"
        /\ pc = "done" =>
            result =
                IF agg.ignore_nulls THEN Null
                ELSE CASE agg.kind \in {"Count", "Sum", "AbsMax"} -> Num(R(0))
                       [] agg.kind = "Min" -> PInf
                       [] agg.kind = "Max" -> NInf
                       [] agg.kind \in {"Mean", "Std"} -> NaN
                       [] agg.kind = "Quantile" -> Null
                       [] agg.kind = "Unique" -> PySet({})

\* Std without a block, nulls not ignored: the zero triple finalizes to NaN.
C25_Witness ==
    /\ blocks = <<>>
    /\ pc = "done"
    /\ agg.kind = "Std"
    /\ ~agg.ignore_nulls
    /\ pool = <<PyList(<<R(0), R(0), R(0)>>)>>
    /\ result = NaN

Addresses == DOMAIN heap

\* C22: accumulate_block(acc, block) of an AggregateFnV2 descriptor depends
\* on the block only: whichever two accumulators are passed, it returns the
\* same partial accumulator, as a new object, and leaves every accumulator
\* as it was.
C22_AccumulateBlockIgnoresAccumulator ==
    pc = "groups" =>
        /\ \A g \in Keys : \A i \in {group[g].next} \cap DOMAIN group[g].blocks :
            \A a1, a2 \in Addresses :
                a1 < a2 =>
                    LET o1 == accumulate_block_ref(agg, heap, a1, group[g].blocks[i])
                        o2 == accumulate_block_ref(agg, heap, a2, group[g].blocks[i])
                    IN  /\ o1 = o2
                        /\ o1.ret \notin Addresses
                        /\ SubSeq(o1.heap, 1, Len(heap)) = heap
        /\ last.op = "accumulate_block" =>
                /\ \A x \in DOMAIN last.before : heap[x] = last.before[x]
                /\ heap[last.ret] = _null_safe_aggregate(agg, last.block)

\* The accumulator passed in holds rows already; the partial holds only
\* those of the block.
C22_Witness ==
    /\ pc = "groups"
    /\ agg.kind = "Quantile"
    /\ last.op = "accumulate_block"
    /\ heap[last.cur] = PyList(<<R(1)>>)
    /\ last.block = <<R(-2), NullVal>>
    /\ heap[last.ret] = PyList(<<R(-2), NullVal>>)

\* C23 as stated: a merge leaves both of its operands as they were.
C23_MergeLeavesOperands ==
    last.op = "merge" =>
        /\ heap[last.cur] = last.before[last.cur]
        /\ heap[last.new] = last.before[last.new]

\* C23: a merge changes no object but, for Quantile with two non-null
\* operands, the current accumulator, which is extended in place by the
\* entries of the new one and returned; every other merge returns a new
\* object or one of the operands as it was.
C23_MergeLeavesOperandsButQuantile ==
    last.op = "merge" =>
        LET h0 == last.before
            InPlace == /\ agg.kind = "Quantile"
                       /\ ~is_null(h0[last.cur])
                       /\ ~is_null(h0[last.new])
        IN  /\ \A x \in DOMAIN h0 : x # last.ret => heap[x] = h0[x]
            /\ last.ret # 0 =>
                    heap[last.ret] = merge(agg, h0[last.cur], h0[last.new])
            /\ ~InPlace => \A x \in DOMAIN h0 : heap[x] = h0[x]
            /\ InPlace =>
                    /\ last.ret = last.cur
                    /\ heap[last.cur] = PyList(h0[last.cur].v \o h0[last.new].v)

\* A Quantile list that held [1] holds the entries of the other operand too.
C23_Witness ==
    /\ pc = "groups"
    /\ agg.kind = "Quantile"
    /\ last.op = "merge"
    /\ last.before[last.cur] = PyList(<<R(1)>>)
    /\ last.before[last.new] = PyList(<<R(-2), NullVal>>)
    /\ heap[last.cur] = PyList(<<R(1), R(-2), NullVal>>)
    /\ heap[last.new] = PyList(<<R(-2), NullVal>>)

\* The result of a group that is alone: its partial accumulators merged
\* into the accumulator of init one after another.
RECURSIVE FoldBlocks(_, _, _)
FoldBlocks(self, acc, bs) ==
    IF bs = <<>> THEN acc
    ELSE FoldBlocks(self, merge(self, acc, accumulate_block(self, acc, bs[1])),
                    Tail(bs))
Alone(self, bs) == finalize(self, FoldBlocks(self, init(self), bs))

\* C24: every call of init returns a new object holding null
\* (ignore_nulls=True) or the raw zero; the two groups never hold the same
\* object, and each group finalizes, whatever the interleaving, to the
\* result it has alone.
C24_GroupsIsolated ==
    pc = "groups" =>
        /\ last.op = "init" =>
                /\ last.ret \notin DOMAIN last.before
                /\ heap[last.ret] = IF agg.ignore_nulls THEN Null
                                    ELSE zero_factory(agg)
        /\ \A i \in 1..Len(group[1].pool) : \A j \in 1..Len(group[2].pool) :
                group[1].pool[i] # group[2].pool[j]
        /\ \A g \in Keys :
                /\ group[g].pc # "error"
                /\ group[g].pc = "done" =>
                        group[g].result = Alone(agg, group[g].blocks)

\* Both groups are done, each with the median of its own rows.
C24_Witness ==
    /\ pc = "groups"
    /\ agg.kind = "Quantile"
    /\ ~agg.ignore_nulls
    /\ group[1].pc = "done"
    /\ group[2].pc = "done"
    /\ group[1].blocks = <<<<>>, <<R(1), R(-2)>>>>
    /\ group[2].blocks = <<<<R(3)>>>>
    /\ group[1].result = Num(<<-1, 2>>)
    /\ group[2].result = Num(R(3))

====
